---------------------------- MODULE Spec2Model ----------------------------
(***************************************************************************)
(* A model of the Evaluator expression language: the recursive-descent     *)
(* compiler of Program.cpp (Parse .. ParseAtom, Program::Compile) and the   *)
(* stack machine that runs the compiled operations (Program::Run,          *)
(* Program::Exec, Peek/Poke/Get/Set).                                      *)
(*                                                                         *)
(* Source text is a sequence of one-character strings; the terminating     *)
(* '\0' of the C string is the value NUL read past the end.  A Value is    *)
(* modelled by the signed integer its 64 bits denote; the inputs are kept  *)
(* small enough that no operation wraps around.                            *)
(***************************************************************************)
EXTENDS Integers, Sequences, FiniteSets, TLC

(***************************************************************************)
(* Bounds of the model.                                                    *)
(***************************************************************************)
NumChannels == 2
MaxChanVal == 1
MaxLit == 2

(***************************************************************************)
(* Error kinds.                                                            *)
(***************************************************************************)
CE_NONE == "CE_NONE"
CE_MISSING_PAREN == "CE_MISSING_PAREN"
CE_UNEXPECTED_CHAR == "CE_UNEXPECTED_CHAR"
CE_ILLEGAL_ASSIGNMENT == "CE_ILLEGAL_ASSIGNMENT"
CE_ILLEGAL_STATEMENT_TERMINATION == "CE_ILLEGAL_STATEMENT_TERMINATION"

RE_NONE == "RE_NONE"
RE_DIVIDE_BY_ZERO == "RE_DIVIDE_BY_ZERO"
RE_MISSING_OPERAND == "RE_MISSING_OPERAND"
RE_MISSING_OPCODE == "RE_MISSING_OPCODE"
RE_INCONSISTENT_STACK == "RE_INCONSISTENT_STACK"
RE_EMPTY_PROGRAM == "RE_EMPTY_PROGRAM"
RE_GET_OUT_OF_BOUNDS == "RE_GET_OUT_OF_BOUNDS"
RE_PUT_OUT_OF_BOUNDS == "RE_PUT_OUT_OF_BOUNDS"

RuntimeErrors ==
    {RE_NONE, RE_DIVIDE_BY_ZERO, RE_MISSING_OPERAND, RE_MISSING_OPCODE,
     RE_INCONSISTENT_STACK, RE_EMPTY_PROGRAM, RE_GET_OUT_OF_BOUNDS,
     RE_PUT_OUT_OF_BOUNDS}

(***************************************************************************)
(* Characters.                                                             *)
(***************************************************************************)
NUL == "NUL"
Upper == <<"A","B","C","D","E","F","G","H","I","J","K","L","M",
           "N","O","P","Q","R","S","T","U","V","W","X","Y","Z">>
Lower == <<"a","b","c","d","e","f","g","h","i","j","k","l","m",
           "n","o","p","q","r","s","t","u","v","w","x","y","z">>
Digits == <<"0","1","2","3","4","5","6","7","8","9">>

Range(f) == {f[i] : i \in DOMAIN f}
IndexOf(f, c) == CHOOSE i \in DOMAIN f : f[i] = c

isalpha(c) == c \in Range(Upper) \cup Range(Lower)
isdigit(c) == c \in Range(Digits)
isspace(c) == c \in {" ", "\t", "\n", "\r", "\f"}
DigitVal(c) == IndexOf(Digits, c) - 1

\* The character code of a letter or of '~'.
Ascii(c) ==
    IF c \in Range(Upper) THEN 64 + IndexOf(Upper, c)
    ELSE IF c \in Range(Lower) THEN 96 + IndexOf(Lower, c)
    ELSE 126

(***************************************************************************)
(* Integer arithmetic of the Value type.                                   *)
(***************************************************************************)
Abs(x) == IF x < 0 THEN -x ELSE x

\* C++ a / b and a % b for b # 0: the quotient is truncated towards zero.
CDiv(a, b) ==
    IF (a >= 0) = (b > 0) THEN Abs(a) \div Abs(b) ELSE -(Abs(a) \div Abs(b))
CRem(a, b) == a - b * CDiv(a, b)

RECURSIVE Pow2(_)
Pow2(n) == IF n = 0 THEN 1 ELSE 2 * Pow2(n - 1)

\* Bitwise operations on two's complement integers.
RECURSIVE BitAnd(_, _)
BitAnd(a, b) ==
    IF a \in {0, -1} /\ b \in {0, -1}
    THEN (IF a = -1 /\ b = -1 THEN -1 ELSE 0)
    ELSE 2 * BitAnd(a \div 2, b \div 2) + (a % 2) * (b % 2)

RECURSIVE BitOr(_, _)
BitOr(a, b) ==
    IF a \in {0, -1} /\ b \in {0, -1}
    THEN (IF a = -1 \/ b = -1 THEN -1 ELSE 0)
    ELSE 2 * BitOr(a \div 2, b \div 2)
         + (IF a % 2 = 1 \/ b % 2 = 1 THEN 1 ELSE 0)

RECURSIVE BitXor(_, _)
BitXor(a, b) ==
    IF a \in {0, -1} /\ b \in {0, -1}
    THEN (IF a # b THEN -1 ELSE 0)
    ELSE 2 * BitXor(a \div 2, b \div 2)
         + (IF a % 2 # b % 2 THEN 1 ELSE 0)

Bool(p) == IF p THEN 1 ELSE 0


(***************************************************************************)
(* Operations.                                                             *)
(***************************************************************************)
Op(code, val) == [code |-> code, val |-> val]

OpCodes ==
    {"NUM", "PEK", "GET", "NEG", "SIN", "SQR", "FREQ", "TRI", "POK", "PUT",
     "MUL", "DIV", "MOD", "ADD", "SUB", "BSL", "BSR", "AND", "OR", "XOR",
     "CLT", "CGT", "TRN", "POP"}

(***************************************************************************)
(* The memory space of a Program: kMemorySize Values.  The model keeps the *)
(* non-zero slots only; every other slot holds 0.  The size is the one    *)
(* Interface::GetProgramMemorySize reports.                                *)
(***************************************************************************)
kMemorySize == 1024 * 64

MemAt(mem, i) == IF i \in DOMAIN mem THEN mem[i] ELSE 0
MemPut(mem, i, v) ==
    LET d == IF v = 0 THEN DOMAIN mem \ {i} ELSE DOMAIN mem \cup {i}
    IN  [j \in d |-> IF j = i THEN v ELSE mem[j]]

\* address % kMemorySize.  Value and kMemorySize are declared in Program.h,
\* and their types fix the sign of the C++ remainder of a negative address;
\* the index is the documented one, address mod kMemorySize, never negative.
Wrap(address) == address % kMemorySize

\* The index of mem that Peek and Poke use.
PeekIndexUnwrapped(address) == address
PeekIndex(address) == Wrap(address)
PokeIndex(address) == Wrap(address)

Peek(mem, address) == MemAt(mem, PeekIndex(address))
Poke(mem, address, value) == MemPut(mem, PokeIndex(address), value)

VarAddress(var) == Ascii(var) + 128
Get(mem, var) == Peek(mem, VarAddress(var))
Set(mem, var, value) == Poke(mem, VarAddress(var), value)

(***************************************************************************)
(* The floating point of SIN and FREQ, tabulated on the arguments the      *)
(* model reaches: periods 1, 2 and 4 of the sine, and the semitones 1..12  *)
(* up and down at the default sample rate.                                 *)
(***************************************************************************)
\* Value(sin(2*pi*(q/period)) * hr + hr), for the remainder q of a % period.
SinSample(q, period, hr) ==
    CASE period \in {1, 2, -1, -2} \/ q = 0 -> hr
      [] period = 4 /\ q \in {1, -3} -> 2 * hr
      [] period = 4 /\ q \in {3, -1} -> 0
      [] period = 4 /\ q = 2 -> hr
      [] period = 4 /\ q = -2 -> IF hr >= 1 THEN hr - 1 ELSE hr

\* round(3 * pow(2, a/12) * (44100 / rate)) for a # 0.
FreqTable == <<3, 3, 4, 4, 4, 4, 4, 5, 5, 5, 6, 6>>
FreqTableDown == <<3, 3, 3, 2, 2, 2, 2, 2, 2, 2, 2, 2>>
FreqSample(a, rate) ==
    CASE rate = 44100 /\ a \in 1..12 -> FreqTable[a]
      [] rate = 44100 /\ -a \in 1..12 -> FreqTableDown[-a]

(***************************************************************************)
(* The machine state of one Run: the operand stack (top last), the memory, *)
(* the caller's channel buffer, and four history fields: touched, the      *)
(* indices of mem read or written, stored, the non-zero Values the POKs    *)
(* wrote last at each index, chans, the indices of the channel buffer      *)
(* read by GET or written by PUT, and ub, the undefined operations         *)
(* evaluated: "div0", an integer division or remainder with a zero         *)
(* divisor, and "shift", a shift by a count outside 0..63.  ubv is the     *)
(* Value such an operation yields where it does not trap.                  *)
(***************************************************************************)
Top(stack) == stack[Len(stack)]
PopN(stack, n) == SubSeq(stack, 1, Len(stack) - n)
PushVal(m, v) == [m EXCEPT !.stack = Append(@, v)]
Done(m, error) == [m |-> m, error |-> error]

\* InBounds with the last channel left out.
InBoundsButLast(a, size) == a >= 0 /\ a < size - 1

\* An index of the channel buffer: a < size, compared as unsigned.
InBounds(a, size) == a >= 0 /\ a < size

Exec1(op, m, a, size, ubv) ==
    LET s == [m EXCEPT !.stack = PopN(@, 1)]
        r == Get(m.mem, "r")
        rTouched == {PeekIndex(VarAddress("r"))}
    IN  CASE op.code = "PEK" ->
               Done(PushVal([s EXCEPT !.touched = @ \cup {PeekIndex(a)}],
                            Peek(m.mem, a)), RE_NONE)
          [] op.code = "GET" ->
               IF InBounds(a, size)
               THEN Done(PushVal([s EXCEPT !.chans = @ \cup {a}],
                                 m.results[a + 1]), RE_NONE)
               ELSE Done(PushVal(s, 0), RE_GET_OUT_OF_BOUNDS)
          [] op.code = "NEG" -> Done(PushVal(s, -a), RE_NONE)
          [] op.code = "SIN" ->
               LET hr == CDiv(r, 2)
                   r1 == r + 1
                   t  == [s EXCEPT !.touched = @ \cup rTouched]
               IN  IF r1 = 0
                   THEN Done(PushVal([t EXCEPT !.ub = @ \cup {"div0"}], ubv), RE_NONE)
                   ELSE Done(PushVal(t, SinSample(CRem(a, r1), r1, hr)), RE_NONE)
          [] op.code = "SQR" ->
               LET t == [s EXCEPT !.touched = @ \cup rTouched]
               IN  IF r = 0
                   THEN Done(PushVal([t EXCEPT !.ub = @ \cup {"div0"}], ubv), RE_NONE)
                   ELSE Done(PushVal(t, IF CRem(a, r) < CDiv(r, 2) THEN 0 ELSE r - 1),
                             RE_NONE)
          [] op.code = "FREQ" ->
               IF a = 0
               THEN Done(PushVal(s, 0), RE_NONE)
               ELSE Done(PushVal([s EXCEPT !.touched = @ \cup {PeekIndex(VarAddress("~"))}],
                                 FreqSample(a, Get(m.mem, "~"))), RE_NONE)
          [] op.code = "TRI" ->
               LET a2 == a * 2
                   t  == [s EXCEPT !.touched = @ \cup rTouched]
               IN  IF r = 0
                   THEN Done(PushVal([t EXCEPT !.ub = @ \cup {"div0"}], ubv), RE_NONE)
                   ELSE LET h == CRem(CDiv(a2, r), 2)
                        IN  Done(PushVal(t, a2 * h + (r - a2 - 1) * (1 - h)), RE_NONE)

Exec2(op, m, a, b, size, ubv) ==
    LET s == [m EXCEPT !.stack = PopN(@, 2)]
    IN  CASE op.code = "POK" ->
               Done(PushVal([s EXCEPT !.mem = Poke(@, a, b),
                                      !.touched = @ \cup {PokeIndex(a)},
                                      !.stored = MemPut(@, PokeIndex(a), b)], b),
                    RE_NONE)
          [] op.code = "PUT" ->
               IF a = -1
               THEN Done(PushVal([s EXCEPT !.results = [i \in DOMAIN @ |-> b],
                                           !.chans = @ \cup 0..(size - 1)], b),
                         RE_NONE)
               ELSE IF InBounds(a, size)
               THEN Done(PushVal([s EXCEPT !.results[a + 1] = b,
                                           !.chans = @ \cup {a}], b), RE_NONE)
               ELSE Done(PushVal(s, b), RE_PUT_OUT_OF_BOUNDS)
          [] op.code = "MUL" -> Done(PushVal(s, a * b), RE_NONE)
          [] op.code = "DIV" ->
               IF b # 0 THEN Done(PushVal(s, CDiv(a, b)), RE_NONE)
               ELSE Done(PushVal(s, 0), RE_DIVIDE_BY_ZERO)
          [] op.code = "MOD" ->
               IF b # 0 THEN Done(PushVal(s, CRem(a, b)), RE_NONE)
               ELSE Done(PushVal(s, 0), RE_DIVIDE_BY_ZERO)
          [] op.code = "ADD" -> Done(PushVal(s, a + b), RE_NONE)
          [] op.code = "SUB" -> Done(PushVal(s, a - b), RE_NONE)
          [] op.code = "BSL" ->
               IF b \in 0..63 THEN Done(PushVal(s, a * Pow2(b)), RE_NONE)
               ELSE Done(PushVal([s EXCEPT !.ub = @ \cup {"shift"}], ubv), RE_NONE)
          [] op.code = "BSR" ->
               IF b >= 0 THEN Done(PushVal(s, a \div Pow2(b % 64)), RE_NONE)
               ELSE Done(PushVal([s EXCEPT !.ub = @ \cup {"shift"}], ubv), RE_NONE)
          [] op.code = "AND" -> Done(PushVal(s, BitAnd(a, b)), RE_NONE)
          [] op.code = "OR"  -> Done(PushVal(s, BitOr(a, b)), RE_NONE)
          [] op.code = "XOR" -> Done(PushVal(s, BitXor(a, b)), RE_NONE)
          [] op.code = "CLT" -> Done(PushVal(s, Bool(a < b)), RE_NONE)
          [] op.code = "CGT" -> Done(PushVal(s, Bool(a > b)), RE_NONE)

\* Exec3 pushing its second operand whatever the first.
Exec3Second(op, m, a, b, c) ==
    Done(PushVal([m EXCEPT !.stack = PopN(@, 3)], b), RE_NONE)

Exec3(op, m, a, b, c) ==
    Done(PushVal([m EXCEPT !.stack = PopN(@, 3)], IF a # 0 THEN b ELSE c), RE_NONE)

Arity(code) ==
    CASE code = "NUM" -> 0
      [] code \in {"PEK", "GET", "NEG", "SIN", "SQR", "FREQ", "TRI"} -> 1
      [] code = "TRN" -> 3
      [] OTHER -> 2

\* The operands POP1, POP2 and POP3 take off a stack that holds enough: the
\* top is the last operand, the value popped last is a.
POP1(stack) == [a |-> stack[Len(stack)]]
POP2Swapped(stack) == [a |-> stack[Len(stack)], b |-> stack[Len(stack) - 1]]
POP2(stack) == [a |-> stack[Len(stack) - 1], b |-> stack[Len(stack)]]
POP3(stack) ==
    [a |-> stack[Len(stack) - 2], b |-> stack[Len(stack) - 1],
     c |-> stack[Len(stack)]]

Operate1(op, m, o, size, ubv) == Exec1(op, m, o.a, size, ubv)
Operate2(op, m, o, size, ubv) == Exec2(op, m, o.a, o.b, size, ubv)
Operate3(op, m, o) == Exec3(op, m, o.a, o.b, o.c)

\* perform the operation
Exec(op, m, size, ubv) ==
    IF op.code \notin OpCodes \ {"POP"} THEN Done(m, RE_MISSING_OPCODE)
    ELSE IF op.code = "NUM" THEN Done(PushVal(m, op.val), RE_NONE)
    ELSE IF Len(m.stack) < Arity(op.code) THEN Done(m, RE_MISSING_OPERAND)
    ELSE IF Arity(op.code) = 1 THEN Operate1(op, m, POP1(m.stack), size, ubv)
    ELSE IF Arity(op.code) = 2 THEN Operate2(op, m, POP2(m.stack), size, ubv)
    ELSE Operate3(op, m, POP3(m.stack))


(***************************************************************************)
(* Program::Run.  The operand stack is a member of the Program: Run starts *)
(* on the stack the previous Run left.                                     *)
(***************************************************************************)
\* RunLoop going on after an error, which it keeps.
RECURSIVE RunLoopOn(_, _, _, _, _)
RunLoopOn(ops, i, st, size, ubv) ==
    IF i > Len(ops) THEN st
    ELSE IF ops[i].code = "POP"
    THEN IF Len(st.m.stack) > 0
         THEN RunLoopOn(ops, i + 1,
                        [st EXCEPT !.stackResult = Top(st.m.stack),
                                   !.m.stack = PopN(@, 1),
                                   !.executed = @ + 1], size, ubv)
         ELSE RunLoopOn(ops, i + 1,
                        [st EXCEPT !.error = IF @ = RE_NONE
                                             THEN RE_INCONSISTENT_STACK ELSE @,
                                   !.executed = @ + 1], size, ubv)
    ELSE LET r == Exec(ops[i], st.m, size, ubv)
         IN  RunLoopOn(ops, i + 1,
                       [st EXCEPT !.m = r.m,
                                  !.error = IF @ = RE_NONE THEN r.error ELSE @,
                                  !.didPut = @ \/ ops[i].code = "PUT",
                                  !.executed = @ + 1], size, ubv)

\* The loop over the operations: it ends at the first error.
RECURSIVE RunLoop(_, _, _, _, _)
RunLoop(ops, i, st, size, ubv) ==
    IF i > Len(ops) \/ st.error # RE_NONE THEN st
    ELSE IF ops[i].code = "POP"
    THEN IF Len(st.m.stack) > 0
         THEN RunLoop(ops, i + 1,
                      [st EXCEPT !.stackResult = Top(st.m.stack),
                                 !.m.stack = PopN(@, 1),
                                 !.executed = @ + 1], size, ubv)
         ELSE RunLoop(ops, i + 1,
                      [st EXCEPT !.error = RE_INCONSISTENT_STACK,
                                 !.executed = @ + 1], size, ubv)
    ELSE LET r == Exec(ops[i], st.m, size, ubv)
         IN  RunLoop(ops, i + 1,
                     [st EXCEPT !.m = r.m,
                                !.error = r.error,
                                !.didPut = @ \/ ops[i].code = "PUT",
                                !.executed = @ + 1], size, ubv)

\* After the loop, when it met no error: the value left on the stack is the
\* result, and it goes to every channel unless the program executed a PUT.
Reconcile(st, size) ==
    IF st.error # RE_NONE THEN st
    ELSE LET n  == Len(st.m.stack)
             s1 == IF n = 1
                   THEN [st EXCEPT !.stackResult = Top(st.m.stack),
                                   !.m.stack = PopN(@, 1)]
                   ELSE IF n > 1
                   THEN [st EXCEPT !.error = RE_INCONSISTENT_STACK]
                   ELSE st
         IN  IF ~s1.didPut
             THEN [s1 EXCEPT !.m.results = [i \in 1..size |-> s1.stackResult]]
             ELSE s1

\* while (stack.size() > 1) stack.pop();
DrainNothing(stack) == stack
Drain(stack) == IF Len(stack) > 1 THEN SubSeq(stack, 1, 1) ELSE stack

RunStart(mem, stack, results) ==
    [m |-> [stack |-> stack, mem |-> mem, results |-> results,
            touched |-> {}, stored |-> <<>>, ub |-> {}, chans |-> {}],
     error |-> RE_NONE, stackResult |-> 0, didPut |-> FALSE, executed |-> 0]

Run(ops, mem, stack, results, ubv) ==
    LET size == Len(results)
        st0  == RunStart(mem, stack, results)
    IN  IF Len(ops) > 0
        THEN LET st == Reconcile(RunLoop(ops, 1, st0, size, ubv), size)
             IN  [st EXCEPT !.m.stack = Drain(@)]
        ELSE [st0 EXCEPT !.error = RE_EMPTY_PROGRAM]


(***************************************************************************)
(* COMPILATION.  A CompilationState, with ret, the value the parse         *)
(* function that handed the state back returned (1 on an error).           *)
(***************************************************************************)
CompilationState(inSource) ==
    [source |-> inSource, parsePos |-> 0, parenCount |-> 0, bracketCount |-> 0,
     parseDepth |-> 0, error |-> CE_NONE, ops |-> <<>>, ret |-> 0]

CharAt(source, pos) == IF pos < Len(source) THEN source[pos + 1] ELSE NUL
At(state) == CharAt(state.source, state.parsePos)
Push(state, code, value) == [state EXCEPT !.ops = Append(@, Op(code, value))]
Advance(state) == [state EXCEPT !.parsePos = @ + 1]
Ret(state, r) == [state EXCEPT !.ret = r]
Fail(state, e) == [state EXCEPT !.error = e, !.ret = 1]

RECURSIVE SkipSpaces(_, _)
SkipSpaces(source, pos) ==
    IF isspace(CharAt(source, pos)) THEN SkipSpaces(source, pos + 1) ELSE pos

SkipWhitespace(state) == [state EXCEPT !.parsePos = SkipSpaces(state.source, @)]

\* strtoull(startPtr, &endPtr, 10): leading white space, an optional sign,
\* then decimal digits; endPtr = startPtr when there is no digit.
RECURSIVE ScanDigits(_, _, _)
ScanDigits(source, pos, acc) ==
    IF isdigit(CharAt(source, pos))
    THEN ScanDigits(source, pos + 1, 10 * acc + DigitVal(CharAt(source, pos)))
    ELSE [val |-> acc, end |-> pos]

strtoull(source, start) ==
    LET p1 == SkipSpaces(source, start)
        c  == CharAt(source, p1)
        p2 == IF c \in {"+", "-"} THEN p1 + 1 ELSE p1
        d  == ScanDigits(source, p2, 0)
    IN  IF d.end = p2 THEN [val |-> 0, end |-> start]
        ELSE [val |-> IF c = "-" THEN -d.val ELSE d.val, end |-> d.end]

RECURSIVE Parse(_)

\* if (F(state)) return 1; and then the rest of the function, K.
Bind(a, K(_)) == IF a.ret = 1 THEN a ELSE K(a)

UnaryMarkers == {"-", "+", "$", "#", "F", "T", "@", "["}
UnaryCode(op) ==
    CASE op = "-" -> "NEG"
      [] op = "$" -> "SIN"
      [] op = "#" -> "SQR"
      [] op = "F" -> "FREQ"
      [] op = "T" -> "TRI"
      [] op = "@" -> "PEK"
      [] op = "[" -> "GET"

\* The loop that collects the prefix markers on the stack unaryOps (top
\* last); it leaves the state at the first character that is no marker.
RECURSIVE CollectUnary(_, _)
CollectUnary(state, unaryOps) ==
    IF At(state) \in UnaryMarkers
    THEN CollectUnary(Advance(state),
                      IF At(state) = "+" THEN unaryOps
                      ELSE Append(unaryOps, UnaryCode(At(state))))
    ELSE [state |-> state, unaryOps |-> unaryOps]

\* PushUnary from the bottom of unaryOps: in the order the markers were read.
RECURSIVE PushUnaryInOrder(_, _)
PushUnaryInOrder(state, unaryOps) ==
    IF unaryOps = <<>> THEN state
    ELSE PushUnaryInOrder(Push(state, Head(unaryOps), 0), Tail(unaryOps))

\* while (!unaryOps.empty()) { state.Push(unaryOps.top()); unaryOps.pop(); }
RECURSIVE PushUnary(_, _)
PushUnary(state, unaryOps) ==
    IF unaryOps = <<>> THEN state
    ELSE PushUnary(Push(state, Top(unaryOps), 0), PopN(unaryOps, 1))

\* After the Parse of a parenthesised expression.
CloseParen(p, unaryOps) ==
    IF At(p) # ")" THEN Fail(p, CE_MISSING_PAREN)
    ELSE Ret(PushUnary([p EXCEPT !.parsePos = @ + 1, !.parenCount = @ - 1],
                       unaryOps), 0)

\* parse a numeric value
ParseNumber(state, n, unaryOps) ==
    IF n.end = state.parsePos THEN Fail(state, CE_UNEXPECTED_CHAR)
    ELSE Ret(PushUnary([Push(state, "NUM", n.val)
                           EXCEPT !.parsePos = @ + (n.end - state.parsePos)],
                       unaryOps), 0)

\* ParsePrimary with the character code of a variable as its address.
ParsePrimaryAtCode(state, unaryOps) ==
    IF At(state) = "("
    THEN Bind(Parse([state EXCEPT !.parsePos = @ + 1, !.parenCount = @ + 1]),
              LAMBDA p : CloseParen(p, unaryOps))
    ELSE IF isalpha(At(state))
    THEN Ret(PushUnary(Advance(Push(Push(state, "NUM", Ascii(At(state))),
                                    "PEK", 0)), unaryOps), 0)
    ELSE ParseNumber(state, strtoull(state.source, state.parsePos), unaryOps)

ParsePrimary(state, unaryOps) ==
    IF At(state) = "("
    THEN Bind(Parse([state EXCEPT !.parsePos = @ + 1, !.parenCount = @ + 1]),
              LAMBDA p : CloseParen(p, unaryOps))
    ELSE IF isalpha(At(state))
    THEN Ret(PushUnary(Advance(Push(Push(state, "NUM", Ascii(At(state)) + 128),
                                    "PEK", 0)), unaryOps), 0)
    ELSE ParseNumber(state, strtoull(state.source, state.parsePos), unaryOps)

AfterUnary(cu) == ParsePrimary(cu.state, cu.unaryOps)

ParseAtom(state) == AfterUnary(CollectUnary(SkipWhitespace(state), <<>>))

FactorOps == {"/", "*", "%"}
FactorCode(op) == IF op = "/" THEN "DIV" ELSE IF op = "%" THEN "MOD" ELSE "MUL"

RECURSIVE ParseFactorsLoop(_)
FactorsStep(state) ==
    IF At(state) \notin FactorOps THEN Ret(state, 0)
    ELSE Bind(ParseAtom(Advance(state)),
              LAMBDA a : ParseFactorsLoop(Push(a, FactorCode(At(state)), 0)))

ParseFactorsLoop(state) == FactorsStep(SkipWhitespace(state))

ParseFactors(state) == Bind(ParseAtom(state), ParseFactorsLoop)

SummandOps == {"-", "+"}
SummandCode(op) == IF op = "-" THEN "SUB" ELSE "ADD"

RECURSIVE ParseSummandsLoop(_)
SummandsStep(state) ==
    IF At(state) \notin SummandOps THEN Ret(state, 0)
    ELSE Bind(ParseFactors(Advance(state)),
              LAMBDA a : ParseSummandsLoop(Push(a, SummandCode(At(state)), 0)))

ParseSummandsLoop(state) == SummandsStep(SkipWhitespace(state))

ParseSummands(state) == Bind(ParseFactors(state), ParseSummandsLoop)

\* A doubled '<' or '>' is a bitshift, a single one a compare.
IsShift(state) == At(Advance(state)) = At(state)
CmpOrShiftCode(op, shift) ==
    IF shift THEN (IF op = "<" THEN "BSL" ELSE "BSR")
    ELSE (IF op = "<" THEN "CLT" ELSE "CGT")

RECURSIVE ParseCmpOrShiftLoop(_)
CmpOrShiftStep(state) ==
    IF At(state) \notin {"<", ">"} THEN Ret(state, 0)
    ELSE Bind(ParseSummands(IF IsShift(state) THEN Advance(Advance(state))
                            ELSE Advance(state)),
              LAMBDA a : ParseCmpOrShiftLoop(
                             Push(a, CmpOrShiftCode(At(state), IsShift(state)), 0)))

ParseCmpOrShiftLoop(state) == CmpOrShiftStep(SkipWhitespace(state))

ParseCmpOrShift(state) == Bind(ParseSummands(state), ParseCmpOrShiftLoop)

RECURSIVE ParseANDLoop(_)
ANDStep(state) ==
    IF At(state) # "&" THEN Ret(state, 0)
    ELSE Bind(ParseCmpOrShift(Advance(state)),
              LAMBDA a : ParseANDLoop(Push(a, "AND", 0)))

ParseANDLoop(state) == ANDStep(SkipWhitespace(state))

ParseAND(state) == Bind(ParseCmpOrShift(state), ParseANDLoop)

RECURSIVE ParseXORLoop(_)
XORStep(state) ==
    IF At(state) # "^" THEN Ret(state, 0)
    ELSE Bind(ParseAND(Advance(state)),
              LAMBDA a : ParseXORLoop(Push(a, "XOR", 0)))

ParseXORLoop(state) == XORStep(SkipWhitespace(state))

ParseXOR(state) == Bind(ParseAND(state), ParseXORLoop)

RECURSIVE ParseORLoop(_)
ORStep(state) ==
    IF At(state) # "|" THEN Ret(state, 0)
    ELSE Bind(ParseXOR(Advance(state)),
              LAMBDA a : ParseORLoop(Push(a, "OR", 0)))

ParseORLoop(state) == ORStep(SkipWhitespace(state))

ParseOR(state) == Bind(ParseXOR(state), ParseORLoop)

\* The end of ParseTRN's loop body: TRN goes beneath a trailing POP.
PushTRN(state) ==
    IF state.ops # <<>> /\ Top(state.ops).code = "POP"
    THEN Push(Push([state EXCEPT !.ops = PopN(@, 1)], "TRN", 0), "POP", 0)
    ELSE Push(state, "TRN", 0)

RECURSIVE ParseTRNLoop(_)
\* After the Parse of the operand that follows '?'.
TRNColon(b) ==
    IF At(b) # ":" THEN Fail(b, CE_UNEXPECTED_CHAR)
    ELSE Bind(Parse(Advance(b)), LAMBDA c : ParseTRNLoop(PushTRN(c)))

TRNStep(state) ==
    IF At(state) # "?" THEN Ret(state, 0)
    ELSE Bind(Parse(Advance(state)), LAMBDA a : TRNColon(SkipWhitespace(a)))

ParseTRNLoop(state) == TRNStep(SkipWhitespace(state))

ParseTRN(state) == Bind(ParseOR(state), ParseTRNLoop)

RECURSIVE ParsePOKLoop(_)
\* POKAssign with the PEK or GET of the left side left in place.
POKAssignKeeping(state, code) ==
    IF code \notin {"PEK", "GET"} THEN Fail(state, CE_ILLEGAL_ASSIGNMENT)
    ELSE Bind(ParseTRN(state),
              LAMBDA a : ParsePOKLoop(
                             Push(a, IF code = "PEK" THEN "POK" ELSE "PUT", 0)))

\* After the '=': code is the last operation of the left side.
POKAssign(state, code) ==
    IF code \notin {"PEK", "GET"} THEN Fail(state, CE_ILLEGAL_ASSIGNMENT)
    ELSE Bind(ParseTRN([state EXCEPT !.ops = PopN(@, 1)]),
              LAMBDA a : ParsePOKLoop(
                             Push(a, IF code = "PEK" THEN "POK" ELSE "PUT", 0)))

POKStep(state) ==
    IF At(state) # "=" THEN Ret(state, 0)
    ELSE POKAssign(Advance(state), Top(state.ops).code)

ParsePOKLoop(state) == POKStep(SkipWhitespace(state))

ParsePOK(state) == Bind(ParseTRN(state), ParsePOKLoop)

\* The statement loop of Parse; a ';' is legal at parse depth 1 only.
RECURSIVE ParseLoop(_)
\* Terminate with the ';' taken at any parse depth.
TerminateAtAnyDepth(b) ==
    IF At(b) # ";" THEN Ret([b EXCEPT !.parseDepth = @ - 1], 0)
    ELSE ParseLoop(SkipWhitespace(Push(Advance(b), "POP", 0)))

\* check for statement termination
Terminate(b) ==
    IF At(b) # ";" THEN Ret([b EXCEPT !.parseDepth = @ - 1], 0)
    ELSE IF b.parseDepth # 1 THEN Fail(b, CE_ILLEGAL_STATEMENT_TERMINATION)
    ELSE ParseLoop(SkipWhitespace(Push(Advance(b), "POP", 0)))

ParseLoop(state) ==
    IF At(state) = NUL THEN Ret(state, 0)
    ELSE Bind(ParsePOK(state), LAMBDA a : Terminate(SkipWhitespace(a)))

Parse(state) == ParseLoop([state EXCEPT !.parseDepth = @ + 1])

\* final error checking
FinalError(state) ==
    IF state.error # CE_NONE THEN state.error
    ELSE IF state.parenCount # 0 \/ At(state) = ")" THEN CE_MISSING_PAREN
    ELSE IF At(state) # NUL THEN CE_UNEXPECTED_CHAR
    ELSE CE_NONE

\* now create a program or don't
Result(state, error) ==
    [ok |-> error = CE_NONE,
     outError |-> error,
     outErrorPosition |-> IF error = CE_NONE THEN -1 ELSE state.parsePos,
     ops |-> IF error = CE_NONE THEN state.ops ELSE <<>>]

Finish(state) == Result(state, FinalError(state))

\* Program::Compile: ops is the operation sequence of the Program it
\* returns, and ok tells whether it returns one.
Compile(source) == Finish(Parse(CompilationState(source)))

\* Program::Program: the operations, a memory whose '~' slot is the default
\* sample rate, and an empty operand stack.
NewProgram(inOps) ==
    [ops |-> inOps, mem |-> Set(<<>>, "~", 44100), stack |-> <<>>]


(***************************************************************************)
(* The host: two Program pointers P and Q, each null until a Compile       *)
(* succeeds for it, and the channel buffer handed to Run.  The source      *)
(* texts the host compiles are the ones below.                             *)
(***************************************************************************)
Chars(text) == [i \in 1..Len(text) |-> SubSeq(text, i, i)]

Sources ==
    {"", "5/0", "a=5;a+1", "1/[0;", "1/[0", "a=1-a;1/a", "r=0;#1", "r=-1;$1",
     "@-1", "@-1=3", "[0=[1", "1?2:3;", "3=4"}

PIDs == {"P", "Q"}
Buffers == [1..NumChannels -> 0..MaxChanVal]
UBVals == {0, 1}

VARIABLES
    prog,      \* prog[p]: the Program p points to (live), its source text,
               \* and erred: whether a Run on it has returned an error
    results,   \* the channel buffer as the last Run left it
    last,      \* the last call the host made, with what it was given,
               \* what it returned and the history of its execution
    halted,    \* the process was stopped by a trap
    expr       \* the expression under test (SpecExpr)

vars == <<prog, results, last, halted, expr>>

NullProgram ==
    [live |-> FALSE, ops |-> <<>>, mem |-> <<>>, stack |-> <<>>,
     source |-> "", erred |-> FALSE]

NoCall ==
    [kind |-> "none", pid |-> "", source |-> "", ok |-> FALSE,
     outError |-> CE_NONE, outErrorPosition |-> -1, ops |-> <<>>,
     error |-> RE_NONE, buf0 |-> <<>>, mem0 |-> <<>>, stack0 |-> <<>>,
     erred0 |-> FALSE, didPut |-> FALSE, touched |-> {}, stored |-> <<>>,
     ub |-> {}, chans |-> {},
     stackResult |-> 0, executed |-> 0]

NoExpr == [k |-> "none"]

Init ==
    /\ prog = [p \in PIDs |-> NullProgram]
    /\ results = [i \in 1..NumChannels |-> 0]
    /\ last = NoCall
    /\ halted = FALSE
    /\ expr = NoExpr

\* The host compiles a text for the pointer p, which is null, and when a
\* Program comes back makes p point to it; a failed Compile returns no
\* Program and p stays null.
Install(p, text, c) ==
    /\ prog' = IF c.ok
               THEN [prog EXCEPT ![p] = [live |-> TRUE, source |-> text,
                                         erred |-> FALSE] @@ NewProgram(c.ops)]
               ELSE prog
    /\ last' = [NoCall EXCEPT !.kind = "compile", !.pid = p, !.source = text,
                              !.ok = c.ok, !.outError = c.outError,
                              !.outErrorPosition = c.outErrorPosition,
                              !.ops = c.ops]

CallCompile(p, text) ==
    /\ ~halted
    /\ ~prog[p].live
    /\ Install(p, text, Compile(Chars(text)))
    /\ UNCHANGED <<results, halted, expr>>

\* The host fills the channel buffer with buf and calls Run on Program p.
\* An integer division by zero either traps, which stops the process, or
\* yields ubv.
CallRecord(p, buf, r) ==
    [NoCall EXCEPT !.kind = "run", !.pid = p,
                   !.source = prog[p].source, !.ops = prog[p].ops,
                   !.error = r.error, !.buf0 = buf,
                   !.mem0 = prog[p].mem, !.stack0 = prog[p].stack,
                   !.erred0 = prog[p].erred, !.didPut = r.didPut,
                   !.touched = r.m.touched,
                   !.stored = r.m.stored, !.ub = r.m.ub,
                   !.chans = r.m.chans,
                   !.stackResult = r.stackResult,
                   !.executed = r.executed]

\* Call with one memory space for all Programs.
CallOnSharedMemory(p, buf, r) ==
    /\ prog' = [q \in PIDs |->
                  IF q = p
                  THEN [prog[p] EXCEPT !.mem = r.m.mem, !.stack = r.m.stack,
                                       !.erred = @ \/ r.error # RE_NONE]
                  ELSE IF prog[q].live THEN [prog[q] EXCEPT !.mem = r.m.mem]
                  ELSE prog[q]]
    /\ results' = r.m.results
    /\ last' = CallRecord(p, buf, r)
    /\ halted' \in (IF "div0" \in r.m.ub THEN BOOLEAN ELSE {FALSE})

Call(p, buf, r) ==
    /\ prog' = [prog EXCEPT ![p].mem = r.m.mem,
                            ![p].stack = r.m.stack,
                            ![p].erred = @ \/ r.error # RE_NONE]
    /\ results' = r.m.results
    /\ last' = CallRecord(p, buf, r)
    /\ halted' \in (IF "div0" \in r.m.ub THEN BOOLEAN ELSE {FALSE})

CallRun(p, buf, ubv) ==
    /\ ~halted
    /\ prog[p].live
    /\ Call(p, buf, Run(prog[p].ops, prog[p].mem, prog[p].stack, buf, ubv))
    /\ UNCHANGED expr

Next ==
    \/ \E p \in PIDs, text \in Sources : CallCompile(p, text)
    \/ \E p \in PIDs, buf \in Buffers, ubv \in UBVals : CallRun(p, buf, ubv)

Spec == Init /\ [][Next]_vars


(***************************************************************************)
(* PROPERTIES OF Run.                                                      *)
(***************************************************************************)
\* What the last Run would have done on an empty operand stack, with the
\* memory and the channel buffer it was given.
Fresh == Run(last.ops, last.mem0, <<>>, last.buf0, 0)
IsRun == last.kind = "run"
Broadcast(v) == [i \in 1..NumChannels |-> v]
InitialMemory == Set(<<>>, "~", 44100)

\* C1: every Run starts on an empty operand stack, so that its error code
\* and the channel values it leaves are those of the operations run on an
\* empty stack with the memory and the channel buffer of the call.
C1_RunStartsOnEmptyStack ==
    IsRun =>
        /\ last.stack0 = <<>>
        /\ last.ub = {} => /\ last.error = Fresh.error
                           /\ results = Fresh.m.results

\* C2: after a Run on a Program has returned an error, a later Run whose
\* operations raise no error on the memory and the channel buffer it is
\* given returns none and leaves the channels its own statement value gives.
C2_ErrorIsLocalToItsRun ==
    (IsRun /\ last.erred0 /\ Fresh.error = RE_NONE /\ Fresh.m.ub = {}) =>
        /\ last.error = RE_NONE
        /\ results = Fresh.m.results

\* C3: after every return of Run, with or without an error, the operand
\* stack of the Program holds at most one entry.
C3_StackAtMostOne == \A p \in PIDs : Len(prog[p].stack) <= 1

\* A Run that ended with more than one value on the stack (inconsistent-stack
\* at the end of an error-free loop) and was drained to one.
C3_Witness ==
    /\ IsRun
    /\ last.error = RE_INCONSISTENT_STACK
    /\ last.executed = Len(last.ops)
    /\ Len(prog[last.pid].stack) = 1

C5_NoDivisionByZero ==
    /\ ~halted
    /\ IsRun => /\ "div0" \notin last.ub
                /\ last.error \in RuntimeErrors

\* C6: a Run that returns none leaves in every channel the value of the
\* program's last statement when it executed no PUT, and otherwise leaves
\* the channels as its PUTs set them.
C6_OutputOfRun ==
    (IsRun /\ last.error = RE_NONE /\ last.ub = {}) =>
        IF ~last.didPut
        THEN results = Broadcast(Fresh.stackResult)
        ELSE results = Fresh.m.results

\* C7: a Run that returns an error and executed no PUT leaves the channel
\* buffer as it was at the call.
C7_ErrorLeavesChannels ==
    (IsRun /\ last.error # RE_NONE /\ ~last.didPut) => results = last.buf0

\* C8: a Run on a Program starts on the memory its previous Run (or its
\* Compile, with 44100 in the '~' slot) left, which holds what the POKs of
\* that Run stored, and changes the memory of no other Program.
C8_MemoryPersistsPerProgram ==
    [][\A p \in PIDs :
          /\ (last'.kind = "run" /\ last'.pid = p) =>
                /\ last'.mem0 = prog[p].mem
                /\ \A i \in DOMAIN last'.stored :
                      MemAt(prog'[p].mem, i) = last'.stored[i]
          /\ (last'.kind = "run" /\ last'.pid # p) => prog'[p].mem = prog[p].mem
          /\ (last'.kind = "compile" /\ last'.pid = p /\ last'.ok) =>
                prog'[p].mem = InitialMemory]_vars

\* P has run 'a=1-a;1/a' on the 1 its previous Run stored in a, while the
\* memory of Q, compiled from the same text, holds another value of a.
C8_Witness ==
    /\ IsRun
    /\ last.pid = "P"
    /\ last.source = "a=1-a;1/a"
    /\ MemAt(last.mem0, VarAddress("a")) = 1
    /\ MemAt(prog["P"].mem, VarAddress("a")) = 0
    /\ prog["Q"].source = "a=1-a;1/a"
    /\ MemAt(prog["Q"].mem, VarAddress("a")) = 1

\* C10: the text '1?2:3;' compiles to NUM 1, NUM 2, NUM 3, TRN, POP, and a
\* Run of it returns none with 2 in every channel.
C10_TernaryStatementCompiles ==
    /\ (last.kind = "compile" /\ last.source = "1?2:3;") =>
          /\ last.ok
          /\ last.ops = <<Op("NUM", 1), Op("NUM", 2), Op("NUM", 3),
                          Op("TRN", 0), Op("POP", 0)>>
    /\ (IsRun /\ last.source = "1?2:3;") =>
          /\ last.error = RE_NONE
          /\ results = Broadcast(2)


(***************************************************************************)
(* EXPRESSIONS.  The expressions of integer literals, binary operators and *)
(* the ternary, as trees; Text writes a tree as source text with the       *)
(* parentheses the precedence table asks for and no others, and Eval is    *)
(* the value of the tree, each operator applied to the values of its       *)
(* operands, the left one first.                                           *)
(***************************************************************************)
Lit(v) == [k |-> "lit", v |-> v]
Bin(op, l, r) == [k |-> "bin", op |-> op, l |-> l, r |-> r]
Trn(c, x, y) == [k |-> "trn", c |-> c, x |-> x, y |-> y]

BinOps == {"*", "/", "%", "+", "-", "<<", ">>", "<", ">", "&", "^", "|"}

\* The precedence table: a higher level binds tighter.
Level(op) ==
    CASE op \in {"*", "/", "%"} -> 6
      [] op \in {"+", "-"} -> 5
      [] op \in {"<<", ">>", "<", ">"} -> 4
      [] op = "&" -> 3
      [] op = "^" -> 2
      [] op = "|" -> 1

LevelOf(e) ==
    CASE e.k = "lit" -> 7
      [] e.k = "bin" -> Level(e.op)
      [] e.k = "trn" -> 0

RECURSIVE NumText(_)
NumText(n) ==
    IF n < 10 THEN Digits[n + 1] ELSE NumText(n \div 10) \o Digits[(n % 10) + 1]

RECURSIVE Text(_)
Paren(e, needed) == IF needed THEN "(" \o Text(e) \o ")" ELSE Text(e)
Text(e) ==
    CASE e.k = "lit" -> NumText(e.v)
      [] e.k = "bin" ->
           Paren(e.l, LevelOf(e.l) < Level(e.op)) \o e.op
               \o Paren(e.r, LevelOf(e.r) <= Level(e.op))
      [] e.k = "trn" ->
           Paren(e.c, e.c.k = "trn") \o "?" \o Text(e.x) \o ":" \o Text(e.y)

Undefined == [ok |-> FALSE, v |-> 0]
Value(v) == [ok |-> TRUE, v |-> v]

\* The value of a op b; none for a zero divisor or a shift count outside
\* 0..63.
Apply(op, a, b) ==
    CASE op = "*" -> Value(a * b)
      [] op = "/" -> IF b = 0 THEN Undefined ELSE Value(CDiv(a, b))
      [] op = "%" -> IF b = 0 THEN Undefined ELSE Value(CRem(a, b))
      [] op = "+" -> Value(a + b)
      [] op = "-" -> Value(a - b)
      [] op = "<<" -> IF b \in 0..63 THEN Value(a * Pow2(b)) ELSE Undefined
      [] op = ">>" -> IF b \in 0..63 THEN Value(a \div Pow2(b)) ELSE Undefined
      [] op = "<" -> Value(Bool(a < b))
      [] op = ">" -> Value(Bool(a > b))
      [] op = "&" -> Value(BitAnd(a, b))
      [] op = "^" -> Value(BitXor(a, b))
      [] op = "|" -> Value(BitOr(a, b))

\* An expression has a value when all its subexpressions have one, the
\* operand of a ternary that is not selected included.
RECURSIVE Eval(_)
Apply2(op, a, b) == IF a.ok /\ b.ok THEN Apply(op, a.v, b.v) ELSE Undefined
Select(c, x, y) ==
    IF c.ok /\ x.ok /\ y.ok THEN (IF c.v # 0 THEN x ELSE y) ELSE Undefined
Eval(e) ==
    CASE e.k = "lit" -> Value(e.v)
      [] e.k = "bin" -> Apply2(e.op, Eval(e.l), Eval(e.r))
      [] e.k = "trn" -> Select(Eval(e.c), Eval(e.x), Eval(e.y))

\* The expressions under test: at most two operators, over the literals
\* 0..MaxLit.
Lits == {Lit(v) : v \in 0..MaxLit}
OneOp ==
    {Bin(op, l, r) : op \in BinOps, l \in Lits, r \in Lits}
      \cup {Trn(c, x, y) : c \in Lits, x \in Lits, y \in Lits}
TwoOps ==
    {Bin(op, l, r) : op \in BinOps, l \in OneOp, r \in Lits}
      \cup {Bin(op, l, r) : op \in BinOps, l \in Lits, r \in OneOp}
      \cup {Trn(c, x, y) : c \in OneOp, x \in Lits, y \in Lits}
      \cup {Trn(c, x, y) : c \in Lits, x \in OneOp, y \in Lits}
      \cup {Trn(c, x, y) : c \in Lits, x \in Lits, y \in OneOp}
Exprs == Lits \cup OneOp \cup TwoOps

InitExpr ==
    /\ prog = [p \in PIDs |-> NullProgram]
    /\ results = [i \in 1..NumChannels |-> 0]
    /\ last = NoCall
    /\ halted = FALSE
    /\ expr \in Exprs

\* The text of the expression is compiled, then run once on the fresh
\* Program, on a channel buffer of zeros or of MaxChanVal.
CompileExpr ==
    /\ last.kind = "none"
    /\ CallCompile("P", Text(expr))

RunExpr ==
    /\ last.kind = "compile"
    /\ \E v \in {0, MaxChanVal}, ubv \in UBVals : CallRun("P", Broadcast(v), ubv)

NextExpr == CompileExpr \/ RunExpr

SpecExpr == InitExpr /\ [][NextExpr]_vars

\* C9 as stated: every expression compiles, and a Run on the fresh Program
\* returns none and leaves the value of the expression in every channel.
C9_EveryExpressionHasItsValue ==
    /\ last.kind = "compile" => last.ok
    /\ IsRun => /\ Eval(expr).ok
                /\ last.error = RE_NONE
                /\ results = Broadcast(Eval(expr).v)

\* C9, amended: every expression compiles, and when no division or
\* remainder in it has a zero divisor and no shift a count outside 0..63,
\* a Run on the fresh Program returns none and leaves the value of the
\* expression in every channel.
C9_DefinedExpressionHasItsValue ==
    /\ last.kind = "compile" => last.ok
    /\ (IsRun /\ Eval(expr).ok) =>
          /\ last.error = RE_NONE
          /\ last.ub = {}
          /\ results = Broadcast(Eval(expr).v)

\* The Run of '2-1-1' on a buffer of MaxChanVal left 0, the value of
\* (2-1)-1, in every channel.
C9_Witness ==
    /\ IsRun
    /\ expr = Bin("-", Bin("-", Lit(2), Lit(1)), Lit(1))
    /\ last.source = "2-1-1"
    /\ last.buf0 = Broadcast(MaxChanVal)
    /\ results = Broadcast(0)


(***************************************************************************)
(* SOURCE TEXTS.  A text under test is a sequence of tokens, written one   *)
(* after the other, with one space before the token number gap + 1 when    *)
(* gap > 0.  The host compiles the text and runs the Program once.         *)
(***************************************************************************)
MaxToks == 3
MaxMarkers == 2

RECURSIVE Join(_)
Join(toks) == IF toks = <<>> THEN "" ELSE Head(toks) \o Join(Tail(toks))

Spaced(toks, gap) ==
    IF gap = 0 THEN Join(toks)
    ELSE Join(SubSeq(toks, 1, gap)) \o " " \o Join(SubSeq(toks, gap + 1, Len(toks)))

SeqsUpTo(S, n) == UNION {[1..k -> S] : k \in 1..n}

Tokens == {"a", "1", "-", "$", "(", ")", "=", ";", "?", ":", "[", "]"}
Letters == Range(Upper) \cup Range(Lower)

\* Runs of prefix markers before a literal, a variable and a parenthesis.
Primaries == {<<"5">>, <<"a">>, <<"(", "1", ")">>}
UnaryTexts ==
    {ms \o pr : ms \in SeqsUpTo(UnaryMarkers, MaxMarkers), pr \in Primaries}

\* c ? x : y, for operands with a store or a division by zero in them.
TrnConds == {<<"0">>, <<"1">>}
TrnArms ==
    {<<"2">>, <<"3">>, <<"a", "=", "1">>, <<"[", "0", "=", "1">>,
     <<"1", "/", "0">>}
TrnToks(c, x, y) == c \o <<"?">> \o x \o <<":">> \o y
TrnTexts == {TrnToks(c, x, y) : c \in TrnConds, x \in TrnArms, y \in TrnArms}

LongTexts ==
    {<<"a", "=", "b", "=", "5">>, <<"3", "=", "4">>, <<"[", "0", "=", "5">>,
     <<"[", "0", "]", "=", "5">>, <<"[", "1", "]", "=", "a">>,
     <<"@", "1", "=", "2">>, <<"(", "a", ")", "=", "1">>,
     <<"1", "+", "a", "=", "2">>, <<"-", "a", "=", "1">>,
     <<"1", "?", "2", ":">>, <<"1", "?", "2", ":", "3", ";">>,
     <<"1", "?", "2", ";", ":", "3">>, <<"(", "1", ";", "2", ")">>,
     <<"(", "1", "?", "2", ":", "3", ")", ";">>,
     <<"a", "=", "0", ";", "a", "?", "1", "/", "a", ":", "0">>,
     <<"1", "/", "0", ";", "a", "=", "5">>,
     <<"-", "(", "1", ")">>, <<"a", "=", "5", ";", "a", "+", "1">>}

Texts ==
    SeqsUpTo(Tokens, MaxToks) \cup {<<x>> : x \in Letters} \cup UnaryTexts
        \cup TrnTexts \cup LongTexts

TextExpr(toks, gap) == [k |-> "text", toks |-> toks, gap |-> gap]
IsText == expr.k = "text"
TextOf(e) == Spaced(e.toks, e.gap)

InitText ==
    /\ prog = [p \in PIDs |-> NullProgram]
    /\ results = [i \in 1..NumChannels |-> 0]
    /\ last = NoCall
    /\ halted = FALSE
    /\ \E t \in Texts : \E g \in 0..(Len(t) - 1) : expr = TextExpr(t, g)

CompileText ==
    /\ last.kind = "none"
    /\ CallCompile("P", TextOf(expr))

RunText ==
    /\ last.kind = "compile"
    /\ \E v \in {0, MaxChanVal}, ubv \in UBVals : CallRun("P", Broadcast(v), ubv)

NextText == CompileText \/ RunText

SpecText == InitText /\ [][NextText]_vars

Compiled(toks) == Compile(Chars(Join(toks)))
IsCompile == last.kind = "compile"
Codes(ops) == [i \in DOMAIN ops |-> ops[i].code]


(***************************************************************************)
(* PROPERTIES OF Compile.                                                  *)
(***************************************************************************)
\* The '=' at token i of the text, with the tokens L before it and R after
\* it: L is a left side when it compiles by itself to a non-empty sequence,
\* holds no '?' and does not end in ';'; R is a right side when it
\* compiles by itself to a non-empty sequence and holds no '=' and no ';'.
LeftOf(toks, i) == SubSeq(toks, 1, i - 1)
RightOf(toks, i) == SubSeq(toks, i + 1, Len(toks))
IsLeftSide(L) ==
    /\ L # <<>>
    /\ "?" \notin Range(L)
    /\ L[Len(L)] # ";"
    /\ Compiled(L).ok
    /\ Compiled(L).ops # <<>>
IsRightSide(R) ==
    /\ "=" \notin Range(R)
    /\ ";" \notin Range(R)
    /\ Compiled(R).ok
    /\ Compiled(R).ops # <<>>
StoreFor(code) == IF code = "PEK" THEN "POK" ELSE "PUT"

\* C11: at an '=', a left side whose last operation is PEK (GET) loses that
\* operation and, after the operations of the right side, POK (PUT) is
\* emitted; after any other last operation Compile fails with
\* illegal-assignment and returns no Program.
C11_AssignmentNeedsDereference ==
    (IsText /\ IsCompile /\ expr.gap = 0) =>
        \A i \in DOMAIN expr.toks :
            (expr.toks[i] = "=" /\ IsLeftSide(LeftOf(expr.toks, i))) =>
                LET l == Compiled(LeftOf(expr.toks, i)).ops
                    R == RightOf(expr.toks, i)
                IN  IF Top(l).code \in {"PEK", "GET"}
                    THEN IsRightSide(R) =>
                            /\ last.ok
                            /\ last.ops = PopN(l, 1) \o Compiled(R).ops
                                            \o <<Op(StoreFor(Top(l).code), 0)>>
                    ELSE /\ ~last.ok
                         /\ last.outError = CE_ILLEGAL_ASSIGNMENT
                         /\ ~prog["P"].live

\* '@1=2' compiled to NUM 1, NUM 2, POK.
C11_Witness ==
    /\ IsText /\ IsCompile
    /\ expr.toks = <<"@", "1", "=", "2">>
    /\ last.ops = <<Op("NUM", 1), Op("NUM", 2), Op("POK", 0)>>

\* The text is the single letter x.
IsLetter(x) == IsText /\ expr.toks = <<x>>
SlotOf(x) ==
    CASE x \in Range(Upper) -> 192 + IndexOf(Upper, x)
      [] x \in Range(Lower) -> 224 + IndexOf(Lower, x)
VariableOps(x) == <<Op("NUM", SlotOf(x)), Op("PEK", 0)>>

SpaceBetweenTokens ==
    /\ IsText
    /\ expr.gap > 0
    /\ ~(isdigit(expr.toks[expr.gap]) /\ isdigit(expr.toks[expr.gap + 1]))

\* C13: a text that compiles without the space compiles with it, to the
\* same operations.
C13_WhitespaceBetweenTokens ==
    (SpaceBetweenTokens /\ IsCompile /\ Compiled(expr.toks).ok) =>
        /\ last.ok
        /\ last.ops = Compiled(expr.toks).ops

\* C14: '[0]=5' compiles, with or without a space between its tokens, and
\* a Run of it returns none with 5 in channel 0; likewise '[1]=a' compiles
\* and a Run of it puts the value of a, 0, in channel 1.
C14_ClosingBracketAccepted ==
    /\ (IsText /\ expr.toks = <<"[", "0", "]", "=", "5">>) =>
          /\ IsCompile => last.ok
          /\ IsRun => last.error = RE_NONE /\ results[1] = 5
    /\ (IsText /\ expr.toks = <<"[", "1", "]", "=", "a">>) =>
          /\ IsCompile => last.ok
          /\ IsRun => last.error = RE_NONE /\ results[2] = 0

\* Token i of a text stands inside an open parenthesis, or between a '?'
\* and its ':', when the tokens before it hold more '(' than ')', or more
\* '?' than ':'.
Count(toks, t) == Cardinality({j \in DOMAIN toks : toks[j] = t})
Depth(toks, i) == Count(LeftOf(toks, i), "(") - Count(LeftOf(toks, i), ")")
Pending(toks, i) == Count(LeftOf(toks, i), "?") - Count(LeftOf(toks, i), ":")
Inside(toks, i) == Depth(toks, i) > 0 \/ Pending(toks, i) > 0
InnerTerminators(toks) ==
    {i \in DOMAIN toks : toks[i] = ";" /\ Inside(toks, i)}
Offset(toks, i) == Len(Join(LeftOf(toks, i)))
CountCode(ops, code) == Cardinality({j \in DOMAIN ops : ops[j].code = code})

\* The tokens before token i, closed: by the missing ')' when i stands
\* inside parentheses only, by ':0' when it stands after one '?' only.
RECURSIVE Closers(_)
Closers(n) == IF n = 0 THEN <<>> ELSE <<")">> \o Closers(n - 1)
Closed(toks, i) ==
    IF Pending(toks, i) = 0
    THEN LeftOf(toks, i) \o Closers(Depth(toks, i))
    ELSE LeftOf(toks, i) \o <<":", "0">>
FollowsOperand(toks, i) ==
    /\ \/ Pending(toks, i) = 0
       \/ Pending(toks, i) = 1 /\ Depth(toks, i) = 0
    /\ toks[i - 1] \notin {":", "?", "("}
    /\ Compiled(Closed(toks, i)).ok

MarkerOps(p) ==
    CASE p = "+" -> <<>>
      [] p = "-" -> <<Op("NEG", 0)>>
      [] p = "$" -> <<Op("SIN", 0)>>
      [] p = "#" -> <<Op("SQR", 0)>>
      [] p = "F" -> <<Op("FREQ", 0)>>
      [] p = "T" -> <<Op("TRI", 0)>>
      [] p = "@" -> <<Op("PEK", 0)>>
      [] p = "[" -> <<Op("GET", 0)>>
RECURSIVE Applied(_)
Applied(ms) ==
    IF ms = <<>> THEN <<>> ELSE Applied(Tail(ms)) \o MarkerOps(Head(ms))

\* The text is a run of prefix markers followed by the primary pr.
MarkersBefore(pr) ==
    /\ IsText
    /\ Len(expr.toks) >= Len(pr)
    /\ SubSeq(expr.toks, Len(expr.toks) - Len(pr) + 1, Len(expr.toks)) = pr
    /\ \A j \in 1..(Len(expr.toks) - Len(pr)) : expr.toks[j] \in UnaryMarkers
MarkersOf(pr) == SubSeq(expr.toks, 1, Len(expr.toks) - Len(pr))

\* C18: a run of prefix markers before a primary compiles to the
\* operations of the primary followed by those of the markers, the marker
\* nearest the primary first, '+' giving none.
C18_MarkersApplyInnermostFirst ==
    \A pr \in Primaries :
        (MarkersBefore(pr) /\ IsCompile /\ expr.gap = 0) =>
            /\ last.ok
            /\ last.ops = Compiled(pr).ops \o Applied(MarkersOf(pr))

\* '-$5' compiled to NUM 5, SIN, NEG.
C18_Witness ==
    /\ IsText /\ IsCompile
    /\ expr.toks = <<"-", "$", "5">>
    /\ last.ops = <<Op("NUM", 5), Op("SIN", 0), Op("NEG", 0)>>


(***************************************************************************)
(* PROPERTIES OF COMPILED PROGRAMS, run once on the fresh Program.         *)
(***************************************************************************)
\* The operands of the ternary texts: a store to the variable a, a store
\* to channel 0, a division by zero, or a literal.
StoresA(z) == z = <<"a", "=", "1">>
PutsChannel(z) == z = <<"[", "0", "=", "1">>
Divides(z) == z = <<"1", "/", "0">>
ValueOf(z) == IF z = <<"2">> THEN 2 ELSE IF z = <<"3">> THEN 3 ELSE 1

\* C19: in c ? x : y both x and y are executed whatever c is: a division
\* by zero in either is returned by Run, the stores of both take effect
\* when neither fails, and c selects the value pushed only; 'a=0;a?1/a:0'
\* returns divide-by-zero.
C19_TernaryRunsBothOperands ==
    /\ (IsText /\ IsRun
           /\ expr.toks = <<"a", "=", "0", ";", "a", "?", "1", "/", "a", ":", "0">>)
          => last.error = RE_DIVIDE_BY_ZERO
    /\ \A c \in TrnConds, x \in TrnArms, y \in TrnArms :
        (IsText /\ expr.toks = TrnToks(c, x, y) /\ IsRun) =>
            IF Divides(x) \/ Divides(y)
            THEN /\ last.error = RE_DIVIDE_BY_ZERO
                 /\ (StoresA(x) /\ Divides(y)) => MemAt(prog["P"].mem, SlotOf("a")) = 1
                 /\ (PutsChannel(x) /\ Divides(y)) => results[1] = 1
            ELSE /\ last.error = RE_NONE
                 /\ last.executed = Len(last.ops)
                 /\ MemAt(prog["P"].mem, SlotOf("a"))
                       = (IF StoresA(x) \/ StoresA(y) THEN 1 ELSE 0)
                 /\ results
                       = (IF PutsChannel(x) \/ PutsChannel(y)
                          THEN [last.buf0 EXCEPT ![1] = 1]
                          ELSE Broadcast(IF c = <<"1">> THEN ValueOf(x)
                                         ELSE ValueOf(y)))

\* The Run of '0?a=1:2' stored 1 in a and left 2 in every channel.
C19_Witness ==
    /\ IsText /\ IsRun
    /\ expr.toks = TrnToks(<<"0">>, <<"a", "=", "1">>, <<"2">>)
    /\ MemAt(prog["P"].mem, SlotOf("a")) = 1
    /\ results = Broadcast(2)

\* C20: a Run of a compiled text, from an empty stack, returns neither
\* missing-operand nor inconsistent-stack, and leaves the stack empty when
\* it returns none.
C20_CompiledProgramsAreBalanced ==
    (IsText /\ IsRun) =>
        /\ last.stack0 = <<>>
        /\ last.error \notin {RE_MISSING_OPERAND, RE_INCONSISTENT_STACK}
        /\ last.error = RE_NONE => prog["P"].stack = <<>>


(***************************************************************************)
(* OPERATION SEQUENCES.  Run as a function of the operations: a Program    *)
(* is made of a sequence of operations (Program::Program) and run once.    *)
(***************************************************************************)
MaxOps == 3

AddrVals == (0 - 2)..(NumChannels + 1)
OpAlphabet ==
    {Op("NUM", v) : v \in AddrVals}
        \cup {Op(code, 0) : code \in {"GET", "PUT", "POP", "DIV", "POK", "PEK"}}
CompiledOps == {Compile(Chars(t)).ops : t \in {"1/0;a=5", "[9;a=5", "a=5;1/0"}}
OpSeqs == SeqsUpTo(OpAlphabet, MaxOps) \cup CompiledOps

\* The channel buffers of the calls: zeros, and MaxChanVal in the channels
\* of even index.
Alternating == [i \in 1..NumChannels |-> IF i % 2 = 1 THEN MaxChanVal ELSE 0]
OpsBuffers == {Broadcast(0), Alternating}

OpsExpr(ops) == [k |-> "ops", ops |-> ops]
IsOps == expr.k = "ops"

InitOps ==
    /\ prog = [p \in PIDs |-> NullProgram]
    /\ results = [i \in 1..NumChannels |-> 0]
    /\ last = NoCall
    /\ halted = FALSE
    /\ \E o \in OpSeqs : expr = OpsExpr(o)

NewOps ==
    /\ last.kind = "none"
    /\ Install("P", "", [ok |-> TRUE, outError |-> CE_NONE,
                         outErrorPosition |-> -1, ops |-> expr.ops])
    /\ UNCHANGED <<results, halted, expr>>

RunOps ==
    /\ last.kind = "compile"
    /\ \E buf \in OpsBuffers, ubv \in UBVals : CallRun("P", buf, ubv)

NextOps == NewOps \/ RunOps

SpecOps == InitOps /\ [][NextOps]_vars

ChannelIndices == 0..(NumChannels - 1)

\* C16: GET and PUT use no index of the channel buffer outside
\* 0 .. channelCount-1.  NUM a, GET reads channel a when a is such an index
\* and otherwise signals get-out-of-bounds and pushes 0; NUM a, NUM v, PUT
\* writes v to every channel for a = -1, to channel a when a is such an
\* index, and otherwise signals put-out-of-bounds and leaves the channels.
C16_ChannelIndexInRange ==
    (IsOps /\ IsRun) =>
        /\ last.chans \subseteq ChannelIndices
        /\ \A a \in AddrVals :
              expr.ops = <<Op("NUM", a), Op("GET", 0)>> =>
                  IF a \in ChannelIndices
                  THEN /\ last.error = RE_NONE
                       /\ last.chans = {a}
                       /\ results = Broadcast(last.buf0[a + 1])
                  ELSE /\ last.error = RE_GET_OUT_OF_BOUNDS
                       /\ last.chans = {}
                       /\ prog["P"].stack = <<0>>
                       /\ results = last.buf0
        /\ \A a \in AddrVals, v \in AddrVals :
              expr.ops = <<Op("NUM", a), Op("NUM", v), Op("PUT", 0)>> =>
                  IF a = -1
                  THEN /\ last.error = RE_NONE
                       /\ results = Broadcast(v)
                  ELSE IF a \in ChannelIndices
                  THEN /\ last.error = RE_NONE
                       /\ last.chans = {a}
                       /\ results = [last.buf0 EXCEPT ![a + 1] = v]
                  ELSE /\ last.error = RE_PUT_OUT_OF_BOUNDS
                       /\ last.chans = {}
                       /\ results = last.buf0

\* NUM -2, GET on the alternating buffer signalled get-out-of-bounds.
C16_Witness ==
    /\ IsOps /\ IsRun
    /\ expr.ops = <<Op("NUM", -2), Op("GET", 0)>>
    /\ last.buf0 = Alternating
    /\ last.error = RE_GET_OUT_OF_BOUNDS
    /\ results = Alternating

\* The loop of the last Run over its first k operations.
LoopOf(k) ==
    RunLoop(SubSeq(last.ops, 1, k), 1,
            RunStart(last.mem0, last.stack0, last.buf0), NumChannels, 0)
Needs(code) ==
    CASE code = "NUM" -> 0
      [] code \in {"GET", "PEK"} -> 1
      [] code \in {"PUT", "POK", "DIV"} -> 2
      [] code = "POP" -> 1

\* C17: the first operation that signals an error is the last that Run
\* executes: Run returns its error and leaves the memory and the channels
\* as that operation left them.  An operation short of operands signals
\* missing-operand, a POP on an empty stack inconsistent-stack.  The Run
\* of '1/0;a=5' leaves a unwritten.
C17_RunStopsAtFirstError ==
    (IsOps /\ IsRun) =>
        /\ \A k \in 1..Len(last.ops) :
              LoopOf(k - 1).error = RE_NONE =>
                  /\ Len(LoopOf(k - 1).m.stack) < Needs(last.ops[k].code) =>
                        LoopOf(k).error
                            = (IF last.ops[k].code = "POP"
                               THEN RE_INCONSISTENT_STACK
                               ELSE RE_MISSING_OPERAND)
                  /\ LoopOf(k).error # RE_NONE =>
                        /\ last.error = LoopOf(k).error
                        /\ last.executed = k
                        /\ prog["P"].mem = LoopOf(k).m.mem
                        /\ results = LoopOf(k).m.results
        /\ last.ops = Compile(Chars("1/0;a=5")).ops =>
              /\ last.error = RE_DIVIDE_BY_ZERO
              /\ MemAt(prog["P"].mem, SlotOf("a")) = 0

\* The Run of the operations of '1/0;a=5' stopped at DIV, its third
\* operation of seven.
C17_Witness ==
    /\ IsOps /\ IsRun
    /\ Len(last.ops) = 7
    /\ last.ops[7].code = "POK"
    /\ last.error = RE_DIVIDE_BY_ZERO
    /\ last.executed = 3


=============================================================================
